---- MODULE Spec2Model ----
(***************************************************************************)
(* A model of the NAPALM driver for Cisco ASA (napalm_asa/asa.py).         *)
(*                                                                         *)
(* The driver object holds a netmiko connection (device), the configured   *)
(* context, the storage identifier and the candidate configuration.  The   *)
(* device behind the connection is modelled by its current context         *)
(* (devctx) and its running configuration (running).  Every driver method  *)
(* is one action; what the method sent to the device, what the device      *)
(* answered and what the method returned or raised are recorded in sent,   *)
(* reply and result.                                                       *)
(*                                                                         *)
(* Text is modelled as a sequence of lines and a line as a tuple of        *)
(* tokens, so that the prefix tests of the code (re.search(r'^:', line))   *)
(* are tests on the first tokens.                                          *)
(***************************************************************************)
EXTENDS Integers, Sequences, FiniteSets, TLC

VARIABLES
    optional_args,      \* the optional_args the constructor was given
    device,             \* self.device: None, "connected" or "closed"
    context,            \* self.context
    dest_file_system,   \* self.dest_file_system
    candidate_config,   \* self.candidate_config
    devctx,             \* the context the device's session is in
    running,            \* the device's running configuration (lines)
    diff_adds,          \* whether the library's diff holds the lines to add
    op,                 \* the method called last
    prev,               \* the call before it: its method and how it ended
    load_called,        \* whether load_replace_candidate was ever called
    sent,               \* what that call sent to the device, in order
    reply,              \* what the device answered to that call
    result              \* what that call returned or raised

vars == <<optional_args, device, context, dest_file_system, candidate_config,
          devctx, running, diff_adds, op, prev, load_called, sent, reply, result>>

\* Python's None
None == "<None>"

\* ---------------------------------------------------------------- bounds

\* the longest output of 'show interface' read, in lines
MaxIfLines == 4

\* the longest output of 'show interface' whose counters are read, in lines
MaxCtLines == 4

\* the most '<number> <word>' components of an uptime string
MaxUptime == 3

\* the longest output that the cleaner is given, in lines
MaxCleanLines == 3

\* the longest list of commands that _send_command is given
MaxCmds == 3

\* the longest output of 'show inventory' read, in lines
MaxInvLines == 4

\* ------------------------------------------------------------ the device

\* the contexts that exist on the device besides the system context
DeviceContexts == {"ctxA", "ctxB"}

\* the context arguments callers pass to ping (vrf); "" is C.PING_VRF
Vrfs == {"", "ctxA", "ctxX"}

\* configuration lines, as token tuples
ConfigLines == {<<"names">>, <<"no", "pager">>}

\* the sequences over S of length at most n
SeqsUpTo(S, n) == UNION {[1..k -> S] : k \in 0..n}

Range(s) == {s[i] : i \in 1..Len(s)}

\* configuration documents: the lines of ConfigLines in any order, none twice
Documents ==
    {d \in SeqsUpTo(ConfigLines, Cardinality(ConfigLines)) : Cardinality(Range(d)) = Len(d)}

\* 'show running-config' on the device: the configuration between the
\* lines the device adds
ShowRunningConfig(cfg) ==
    <<  <<":", "Saved">>, <<"ASA", "Version", "9.8(2)">> >> \o cfg \o
    <<  <<"Cryptochecksum", ":9a1b">>, <<":", "end">> >>

\* the device's answer to 'changeto context <name>'
ChangetoReply(name) ==
    IF name \in DeviceContexts THEN [pct |-> FALSE] ELSE [pct |-> TRUE]

\* the context of the device after 'changeto context <name>'
ChangetoContext(cur, name) == IF name \in DeviceContexts THEN name ELSE cur

\* ------------------------------------------------------------ results

Returned(v) == [status |-> "returned", exc |-> "", value |-> v]
Raised(e) == [status |-> "raised", exc |-> e, value |-> None]

NoCandidate == [loaded |-> FALSE, ioscfg |-> <<>>]
Candidate(lines) == [loaded |-> TRUE, ioscfg |-> lines]

\* ----------------------------------------------------------- __init__

OptionalArgs ==
    {[given |-> FALSE, context |-> None, dest_file_system |-> None]} \cup
    {[given |-> TRUE, context |-> c, dest_file_system |-> d] :
        c \in {None, "system", "ctxB"}, d \in {None, "disk0:"}}

\* self.context after the constructor
InitContext(args) == IF ~args.given THEN None ELSE args.context

\* self.dest_file_system after the constructor
InitDestFileSystem(args) == None

Init ==
    /\ optional_args \in OptionalArgs
    /\ device = None
    /\ context = InitContext(optional_args)
    /\ dest_file_system = InitDestFileSystem(optional_args)
    /\ candidate_config = NoCandidate
    /\ devctx = "system"
    /\ running \in Documents
    /\ diff_adds \in BOOLEAN
    /\ op = "__init__"
    /\ prev = [op |-> None, status |-> None]
    /\ load_called = FALSE
    /\ sent = <<>>
    /\ reply = None
    /\ result = Returned(None)

\* the last call, as the next call finds it
Last == [op |-> op, status |-> result.status]

\* ------------------------------------------------- self.device.send_command

\* the outcome of the n-th send of a call, when the transport fails at the
\* failAt-th (0: never)
SendOutcome(n, failAt) ==
    IF device = None THEN "AttributeError"
    ELSE IF device = "closed" \/ failAt = n THEN "TransportError"
    ELSE "ok"

\* Python's truth of an optional string
Truthy(s) == s # None /\ s # ""

\* ---------------------------------------------------------- _send_command

\* the commands that _send_command is tried on
Commands == {<<"show", "inventory">>, <<"show", "version">>, <<"show", "hostname">>}

\* the command argument: a list of commands, or one command (cmds holds it)
CommandList(cmds) == [list |-> TRUE, cmds |-> cmds]
OneCommand(cmd) == [list |-> FALSE, cmds |-> <<cmd>>]

\* what the device answers to cmd, and whether "% Invalid" is in it
Output(cmd, invalid) == [cmd |-> cmd, invalid |-> invalid]

\* output = ""
NoOutput == Output(<<>>, FALSE)

\* the locals of _send_command: what was sent so far, output, and the exception
SendStart == [sent |-> <<>>, output |-> NoOutput, raised |-> ""]

\* one self.device.send_command(cmd), the i-th of the call
SendOne(st, cmd, i, invalid, failAt) ==
    IF SendOutcome(i, failAt) = "AttributeError"
    THEN [st EXCEPT !.raised = "AttributeError"]
    ELSE IF SendOutcome(i, failAt) # "ok"
    THEN [st EXCEPT !.sent = Append(@, cmd), !.raised = SendOutcome(i, failAt)]
    ELSE [st EXCEPT !.sent = Append(@, cmd), !.output = Output(cmd, invalid[i])]

\* the loop over the list as it would be without its break
RECURSIVE SendEachNoBreak(_, _, _, _, _)
SendEachNoBreak(st, cmds, i, invalid, failAt) ==
    IF cmds = <<>> \/ st.raised # "" THEN st
    ELSE SendEachNoBreak(SendOne(st, Head(cmds), i, invalid, failAt),
                         Tail(cmds), i + 1, invalid, failAt)

\* for cmd in command: send it, and break when "% Invalid" is not in output;
\* i counts the sends
RECURSIVE SendEach(_, _, _, _, _)
SendEach(st, cmds, i, invalid, failAt) ==
    IF cmds = <<>> \/ st.raised # "" THEN st
    ELSE LET st2 == SendOne(st, Head(cmds), i, invalid, failAt)
         IN IF st2.raised = "" /\ ~st2.output.invalid THEN st2
            ELSE SendEach(st2, Tail(cmds), i + 1, invalid, failAt)

\* reply.command is the argument, reply.invalid[i] whether the device answers
\* the i-th send with "% Invalid", reply.failAt the send at which the
\* transport fails
_send_command ==
    LET st == IF reply.command.list
              THEN SendEach(SendStart, reply.command.cmds, 1, reply.invalid, reply.failAt)
              ELSE SendOne(SendStart, reply.command.cmds[1], 1, reply.invalid, reply.failAt)
    IN /\ op' = "_send_command"
       /\ prev' = Last
       /\ sent' = st.sent
       /\ result' = IF st.raised # "" THEN Raised(st.raised) ELSE Returned(st.output)
       /\ UNCHANGED <<diff_adds, load_called, optional_args, device, context,
                      dest_file_system, candidate_config, devctx, running, reply>>

\* ---------------------------------------------------------------- open

\* open as it would be if it entered whatever context is configured, the
\* system context too
OpenContextSwitchAnyName(ctx) ==
    IF Truthy(ctx) THEN << <<"changeto", "context", ctx>> >> ELSE <<>>

\* the commands open sends after the session is up
OpenContextSwitch(ctx) ==
    IF Truthy(ctx) /\ ctx # "system" THEN << <<"changeto", "context", ctx>> >> ELSE <<>>

\* conn: whether ConnectHandler succeeds; fs: what _autodetect_fs gives
open(conn, fs) ==
    /\ op' = "open"
    /\ prev' = Last
    /\ reply' = [conn |-> conn, fs |-> fs]
    /\ UNCHANGED <<diff_adds, load_called, optional_args, context, candidate_config, running>>
    /\ IF ~conn
       THEN /\ result' = Raised("TransportError")
            /\ sent' = << <<"ConnectHandler">> >>
            /\ UNCHANGED <<device, dest_file_system, devctx>>
       ELSE /\ device' = "connected"
            /\ IF ~Truthy(dest_file_system) /\ fs = "unsupported"
               THEN /\ result' = Raised("AttributeError")
                    /\ sent' = << <<"ConnectHandler">>, <<"enable">>, <<"changeto", "system">> >>
                    /\ devctx' = "system"
                    /\ UNCHANGED dest_file_system
               ELSE /\ result' = Returned(None)
                    /\ dest_file_system' =
                         IF ~Truthy(dest_file_system) THEN fs ELSE dest_file_system
                    /\ sent' = << <<"ConnectHandler">>, <<"enable">>, <<"changeto", "system">> >>
                               \o (IF ~Truthy(dest_file_system) THEN << <<"_autodetect_fs">> >> ELSE <<>>)
                               \o OpenContextSwitch(context)
                    /\ devctx' = IF OpenContextSwitch(context) = <<>> THEN "system"
                                 ELSE ChangetoContext("system", context)

\* --------------------------------------------------------------- close

close ==
    /\ op' = "close"
    /\ prev' = Last
    /\ reply' = None
    /\ UNCHANGED <<diff_adds, load_called, optional_args, context, dest_file_system, candidate_config,
                   devctx, running>>
    /\ IF device = None
       THEN /\ result' = Raised("AttributeError")
            /\ sent' = <<>>
            /\ UNCHANGED device
       ELSE /\ result' = Returned(None)
            /\ sent' = << <<"disconnect">> >>
            /\ device' = "closed"

\* ------------------------------------------------------------- is_alive

\* how the send of the null byte ends: "ok", or with the exception raised
ProbeFailures == {"socket.error", "EOFError"}
ProbeOutcomes == {"ok"} \cup ProbeFailures

\* is_alive as it would be if it caught socket.error only
is_alive_socket_error_only(probe, active) ==
    /\ device # "closed" \/ probe # "ok"
    /\ op' = "is_alive"
    /\ prev' = Last
    /\ reply' = [probe |-> probe, active |-> active]
    /\ sent' = IF device = None THEN <<>> ELSE << <<"send_command", "chr(0)">> >>
    /\ result' = IF device = None THEN Raised("AttributeError")
                 ELSE IF probe = "socket.error" THEN Returned([is_alive |-> FALSE])
                 ELSE IF probe # "ok" THEN Raised(probe)
                 ELSE Returned([is_alive |-> active])
    /\ UNCHANGED <<diff_adds, load_called, optional_args, device, context, dest_file_system,
                   candidate_config, devctx, running>>

\* probe: how device.send_command(chr(0)) ends (on a session that was closed
\* it fails); active: what transport.is_active() answers
is_alive(probe, active) ==
    /\ device # "closed" \/ probe # "ok"
    /\ op' = "is_alive"
    /\ prev' = Last
    /\ reply' = [probe |-> probe, active |-> active]
    /\ sent' = IF device = None THEN <<>> ELSE << <<"send_command", "chr(0)">> >>
    /\ result' = IF device = None THEN Raised("AttributeError")
                 ELSE IF probe \in ProbeFailures THEN Returned([is_alive |-> FALSE])
                 ELSE Returned([is_alive |-> active])
    /\ UNCHANGED <<diff_adds, load_called, optional_args, device, context, dest_file_system,
                   candidate_config, devctx, running>>

\* ------------------------------------------------- _process_config_output

StartsWith(line, prefix) ==
    /\ Len(line) >= Len(prefix)
    /\ SubSeq(line, 1, Len(prefix)) = prefix

\* a line the cleaner drops: '^:', '^ASA Version', '^Cryptochecksum'
IsNonConfigLine(line) ==
    \/ StartsWith(line, <<":">>)
    \/ StartsWith(line, <<"ASA", "Version">>)
    \/ StartsWith(line, <<"Cryptochecksum">>)

\* the lines kept as they would be if only the first line to drop were
\* dropped
ProcessDroppingFirstOnly(output) ==
    LET D == {i \in 1..Len(output) : IsNonConfigLine(output[i])}
        first == CHOOSE i \in D : \A j \in D : i <= j
    IN IF D = {} THEN output
       ELSE SubSeq(output, 1, first - 1) \o SubSeq(output, first + 1, Len(output))

\* the lines of output that the loop keeps, output being output.splitlines()
_process_config_output(output) ==
    SelectSeq(output, LAMBDA line : ~IsNonConfigLine(line))

\* A text is its lines and whether its last line is ended by a line end; ''
\* has no line, and a text whose last line is empty always has it ended.
Text(lines, nl) == [lines |-> lines, nl |-> nl]
IsText(t) ==
    /\ t.lines = <<>> => ~t.nl
    /\ (t.lines # <<>> /\ t.lines[Len(t.lines)] = <<>>) => t.nl

\* str.splitlines
splitlines(t) == t.lines

\* newoutput: every line kept, each followed by "\n"
NewOutput(lines) == Text(lines, lines # <<>>)

\* the text that _process_config_output returns for the text output
CleanedText(output) == NewOutput(_process_config_output(splitlines(output)))

\* the lines that the cleaner is tried on: configuration lines, the lines it
\* drops, an empty line and an indented line that holds a marker further in
CleanerLines ==
    ConfigLines \cup {<<":", "Saved">>, <<"ASA", "Version", "9.8(2)">>,
                      <<"Cryptochecksum", ":9a1b">>, <<>>,
                      <<" ", "ASA", "Version">>}

\* the cleaner on reply.output, and then on what it returned before
process_config_output ==
    LET output == IF op = "_process_config_output" THEN result.value ELSE reply.output
    IN /\ op' = "_process_config_output"
       /\ prev' = Last
       /\ sent' = <<>>
       /\ result' = Returned(CleanedText(output))
       /\ UNCHANGED <<diff_adds, load_called, optional_args, device, context, dest_file_system,
                      candidate_config, devctx, running, reply>>

\* ------------------------------------------------- load_replace_candidate

\* the filename argument: not given (None), the name of a file that does not
\* exist, or the name of a file with its lines
NoFile == [name |-> None, content |-> <<>>]
MissingFile == [name |-> "missing.conf", content |-> <<>>]
File(lines) == [name |-> "cand.conf", content |-> lines]
Files == {NoFile, MissingFile} \cup {File(d) : d \in Documents}

\* the config argument: not given (None), or a text (<<>> the empty text)
NoConfig == [given |-> FALSE, text |-> <<>>]
Config(text) == [given |-> TRUE, text |-> text]
Configs == {NoConfig} \cup {Config(d) : d \in Documents}

\* load_replace_candidate as it would be if the text went before the file
load_replace_candidate_text_first(filename, config) ==
    /\ op' = "load_replace_candidate"
    /\ prev' = Last
    /\ reply' = [filename |-> filename, config |-> config]
    /\ sent' = <<>>
    /\ load_called' = TRUE
    /\ UNCHANGED <<diff_adds, optional_args, device, context, dest_file_system, devctx, running>>
    /\ IF config.given /\ config.text # <<>>
       THEN /\ result' = Returned(<<TRUE, "Candidate loaded to memory">>)
            /\ candidate_config' = Candidate(config.text)
       ELSE IF Truthy(filename.name)
       THEN IF filename = MissingFile
            THEN /\ result' = Raised("IOError")
                 /\ UNCHANGED candidate_config
            ELSE /\ result' = Returned(<<TRUE, "Candidate loaded to memory">>)
                 /\ candidate_config' = Candidate(filename.content)
       ELSE /\ result' = Returned(<<TRUE, "Candidate loaded to memory">>)
            /\ UNCHANGED candidate_config

\* filename, config: the arguments
load_replace_candidate(filename, config) ==
    /\ op' = "load_replace_candidate"
    /\ prev' = Last
    /\ reply' = [filename |-> filename, config |-> config]
    /\ sent' = <<>>
    /\ load_called' = TRUE
    /\ UNCHANGED <<diff_adds, optional_args, device, context, dest_file_system, devctx, running>>
    /\ IF Truthy(filename.name)
       THEN IF filename = MissingFile
            THEN /\ result' = Raised("IOError")
                 /\ UNCHANGED candidate_config
            ELSE /\ result' = Returned(<<TRUE, "Candidate loaded to memory">>)
                 /\ candidate_config' = Candidate(filename.content)
       ELSE /\ result' = Returned(<<TRUE, "Candidate loaded to memory">>)
            /\ IF config.given /\ config.text # <<>>
               THEN candidate_config' = Candidate(config.text)
               ELSE UNCHANGED candidate_config

\* ------------------------------------------------- _get_candidate_diff_lines

\* the command that removes a configuration line
Unconf(line) ==
    IF StartsWith(line, <<"no">>) THEN Tail(line) ELSE <<"no">> \o line

\* CiscoConfParse.req_cfgspec_excl_diff(".*", ".*", cfgspec) on the lines
\* config: the removal of every line of config that cfgspec does not hold, in
\* config's order, then (diff_adds) the lines of cfgspec that config does not
\* hold.  The library is no part of the driver: the model goes through both
\* a diff that ends with the lines to add and one that does not.
req_cfgspec_excl_diff(config, cfgspec) ==
    LET unconf == SelectSeq(config, LAMBDA l : l \notin Range(cfgspec))
        add == IF diff_adds THEN SelectSeq(cfgspec, LAMBDA l : l \notin Range(config))
               ELSE <<>>
    IN [i \in 1..Len(unconf) |-> Unconf(unconf[i])] \o add

\* _get_candidate_diff_lines as it would be if a missing candidate counted
\* as an empty one
DiffLinesOfMissingAsEmpty(cand, failAt) ==
    IF SendOutcome(1, failAt) # "ok" THEN Raised(SendOutcome(1, failAt))
    ELSE Returned(req_cfgspec_excl_diff(
                      _process_config_output(ShowRunningConfig(running)),
                      cand.ioscfg))

\* _get_candidate_diff_lines as it would be if it asked the candidate for
\* its diff to the running configuration
DiffLinesOfCandidateToRunning(cand, failAt) ==
    IF SendOutcome(1, failAt) # "ok" THEN Raised(SendOutcome(1, failAt))
    ELSE IF ~cand.loaded THEN Raised("AttributeError")
    ELSE Returned(req_cfgspec_excl_diff(
                      cand.ioscfg,
                      _process_config_output(ShowRunningConfig(running))))

\* what _get_candidate_diff_lines returns or raises with candidate cand,
\* when the transport fails at the failAt-th send
_get_candidate_diff_lines(cand, failAt) ==
    IF SendOutcome(1, failAt) # "ok" THEN Raised(SendOutcome(1, failAt))
    ELSE IF ~cand.loaded THEN Raised("AttributeError")
    ELSE Returned(req_cfgspec_excl_diff(
                      _process_config_output(ShowRunningConfig(running)),
                      cand.ioscfg))

\* what the call sent on its way
DiffSent == IF device = None THEN <<>> ELSE << <<"show", "running-config">> >>

\* ------------------------------------------------------- compare_config

\* "\n".join(lines): a line end between the lines and none at the end (an
\* empty last line leaves the text ending with the line end before it)
join(lines) ==
    IF lines # <<>> /\ lines[Len(lines)] = <<>>
    THEN Text(SubSeq(lines, 1, Len(lines) - 1), Len(lines) > 1)
    ELSE Text(lines, FALSE)

\* compare_config as it would be if it consumed the candidate
compare_config_consuming(failAt) ==
    LET diff == _get_candidate_diff_lines(candidate_config, failAt)
    IN /\ op' = "compare_config"
       /\ prev' = Last
       /\ reply' = [failAt |-> failAt]
       /\ sent' = DiffSent
       /\ result' = IF diff.status = "raised" THEN diff ELSE Returned(join(diff.value))
       /\ candidate_config' = NoCandidate
       /\ UNCHANGED <<diff_adds, load_called, optional_args, device, context, dest_file_system,
                      devctx, running>>

\* compare_config as it would be if it joined the lines by a space
compare_config_joined_by_space(failAt) ==
    LET diff == _get_candidate_diff_lines(candidate_config, failAt)
        RECURSIVE Words(_)
        Words(lines) == IF lines = <<>> THEN <<>> ELSE Head(lines) \o Words(Tail(lines))
    IN /\ op' = "compare_config"
       /\ prev' = Last
       /\ reply' = [failAt |-> failAt]
       /\ sent' = DiffSent
       /\ result' = IF diff.status = "raised" THEN diff
                    ELSE IF diff.value = <<>> THEN Returned(Text(<<>>, FALSE))
                    ELSE Returned(Text(<<Words(diff.value)>>, FALSE))
       /\ UNCHANGED <<diff_adds, load_called, optional_args, device, context,
                      dest_file_system, candidate_config, devctx, running>>

compare_config(failAt) ==
    LET diff == _get_candidate_diff_lines(candidate_config, failAt)
    IN /\ op' = "compare_config"
       /\ prev' = Last
       /\ reply' = [failAt |-> failAt]
       /\ sent' = DiffSent
       /\ result' = IF diff.status = "raised" THEN diff ELSE Returned(join(diff.value))
       /\ UNCHANGED <<diff_adds, load_called, optional_args, device, context, dest_file_system,
                      candidate_config, devctx, running>>

\* ------------------------------------------------------- discard_config

\* discard_config as it would be if it kept the candidate
discard_config_keeping ==
    /\ op' = "discard_config"
    /\ prev' = Last
    /\ reply' = None
    /\ sent' = <<>>
    /\ result' = Returned(None)
    /\ UNCHANGED <<diff_adds, load_called, optional_args, device, context, dest_file_system,
                   candidate_config, devctx, running>>

discard_config ==
    /\ op' = "discard_config"
    /\ prev' = Last
    /\ reply' = None
    /\ sent' = <<>>
    /\ result' = Returned(None)
    /\ candidate_config' = NoCandidate
    /\ UNCHANGED <<diff_adds, load_called, optional_args, device, context, dest_file_system, devctx, running>>

\* -------------------------------------------------------- commit_config

\* the device's configuration after one configuration command
ApplyCommand(cfg, cmd) ==
    IF \E i \in 1..Len(cfg) : Unconf(cfg[i]) = cmd
    THEN SelectSeq(cfg, LAMBDA l : Unconf(l) # cmd)
    ELSE IF cmd \in Range(cfg) THEN cfg ELSE Append(cfg, cmd)

RECURSIVE ApplyCommands(_, _)
ApplyCommands(cfg, cmds) ==
    IF cmds = <<>> THEN cfg
    ELSE ApplyCommands(ApplyCommand(cfg, Head(cmds)), Tail(cmds))

\* the candidate after a commit
CommittedCandidate(cand) == cand

commit_config(failAt) ==
    LET commands == _get_candidate_diff_lines(candidate_config, failAt)
    IN /\ op' = "commit_config"
       /\ prev' = Last
       /\ reply' = [failAt |-> failAt]
       /\ UNCHANGED <<diff_adds, load_called, optional_args, device, context, dest_file_system, devctx>>
       /\ IF commands.status = "raised"
          THEN /\ result' = commands
               /\ sent' = DiffSent
               /\ UNCHANGED <<candidate_config, running>>
          ELSE IF SendOutcome(2, failAt) # "ok"
          THEN /\ result' = Raised(SendOutcome(2, failAt))
               /\ sent' = DiffSent
               /\ UNCHANGED <<candidate_config, running>>
          ELSE /\ result' = Returned(None)
               /\ sent' = DiffSent \o << <<"send_config_set", commands.value>> >>
               /\ running' = ApplyCommands(running, commands.value)
               /\ candidate_config' = CommittedCandidate(candidate_config)

\* ---------------------------------------------------------------- ping

\* the output of the ping command, by what the code looks for in it: the
\* error marker '%', the word 'Sending', and the rate line ('Success rate is
\* 0 percent (0/5)', 'Success rate is 80 percent (4/5), round-trip
\* min/avg/max = 1/2/3 ms', or a rate line cut short)
PingOutputs ==
    [pct : BOOLEAN, sending : BOOLEAN, rate : {"none", "zero", "some", "short"}]

NoSuccess ==
    [present |-> FALSE, probes_sent |-> 0, packet_loss |-> 0, rtt |-> FALSE, results |-> 0]

\* ping_dict['success'] after the scan of the lines of output
PingSuccess(output) ==
    CASE output.rate = "zero" ->
           [present |-> TRUE, probes_sent |-> 5, packet_loss |-> 5, rtt |-> FALSE, results |-> 0]
      [] output.rate = "some" ->
           [present |-> TRUE, probes_sent |-> 5, packet_loss |-> 1, rtt |-> TRUE, results |-> 4]
      [] OTHER ->
           [present |-> TRUE, probes_sent |-> 0, packet_loss |-> 0, rtt |-> FALSE, results |-> 0]

\* PingParse as it would be if it looked for 'Sending' before '%'
PingParseSendingFirst(dict, output) ==
    IF output.sending
    THEN IF output.rate = "short" THEN Raised("IndexError")
         ELSE Returned([dict EXCEPT !.success = PingSuccess(output)])
    ELSE IF output.pct THEN Returned([dict EXCEPT !.error = "ping"])
    ELSE Returned(dict)

\* ping_dict after the output of the ping command was read, from the
\* ping_dict before it (error: whose output ping_dict['error'] is, or None);
\* a rate line cut short has no fields[5]
PingParse(dict, output) ==
    IF output.pct THEN Returned([dict EXCEPT !.error = "ping"])
    ELSE IF output.sending
    THEN IF output.rate = "short" THEN Raised("IndexError")
         ELSE Returned([dict EXCEPT !.success = PingSuccess(output)])
    ELSE Returned(dict)

\* the commands that bring the device back after a ping from another context
PingRestore(ctx) ==
    IF Truthy(ctx) /\ ctx # "system" THEN << <<"changeto", "context", ctx>> >>
    ELSE IF Truthy(ctx) THEN << <<"changeto", "system">> >>
    ELSE <<>>

\* the context of the device after the commands of PingRestore
Restored(cur, ctx) ==
    IF Truthy(ctx) /\ ctx # "system" THEN ChangetoContext(cur, ctx)
    ELSE IF Truthy(ctx) THEN "system"
    ELSE cur

\* vrf: the argument ("" when not given); output: the device's answer to the
\* ping command; failAt: the send at which the transport fails (0: never)
ping(vrf, output, failAt) ==
    LET useVrf == Truthy(vrf)
        switch == << <<"changeto", "context", vrf>> >>
        o1 == IF useVrf THEN SendOutcome(1, failAt) ELSE "ok"
        dict1 == [error |-> IF useVrf /\ ChangetoReply(vrf).pct THEN "changeto" ELSE None,
                  success |-> NoSuccess]
        ctx1 == IF useVrf THEN ChangetoContext(devctx, vrf) ELSE devctx
        sent1 == IF useVrf THEN switch ELSE <<>>
        o2 == SendOutcome(IF useVrf THEN 2 ELSE 1, failAt)
        parsed == PingParse(dict1, output)
        restore == IF useVrf THEN PingRestore(context) ELSE <<>>
        o3 == IF restore # <<>> THEN SendOutcome(3, failAt) ELSE "ok"
    IN /\ op' = "ping"
       /\ prev' = Last
       /\ reply' = [vrf |-> vrf, output |-> output, failAt |-> failAt]
       /\ UNCHANGED <<diff_adds, load_called, optional_args, device, context, dest_file_system,
                      candidate_config, running>>
       /\ IF o1 # "ok"
          THEN /\ result' = Raised(o1)
               /\ sent' = IF device = None THEN <<>> ELSE sent1
               /\ UNCHANGED devctx
          ELSE IF o2 # "ok"
          THEN /\ result' = Raised(o2)
               /\ sent' = IF device = None THEN <<>> ELSE sent1 \o << <<"ping">> >>
               /\ devctx' = ctx1
          ELSE IF parsed.status = "raised"
          THEN /\ result' = parsed
               /\ sent' = sent1 \o << <<"ping">> >>
               /\ devctx' = ctx1
          ELSE IF o3 # "ok"
          THEN /\ result' = Raised(o3)
               /\ sent' = sent1 \o << <<"ping">> >> \o restore
               /\ devctx' = ctx1
          ELSE /\ result' = parsed
               /\ sent' = sent1 \o << <<"ping">> >> \o restore
               /\ devctx' = IF useVrf THEN Restored(ctx1, context) ELSE ctx1

\* ------------------------------------------------------- get_interfaces

\* A line of 'show interface', by what the patterns of get_interfaces find in
\* it.  hdr: interface_regex matches, with the name, the description, whether
\* the status holds 'admin' and whether the protocol holds 'up'; bw:
\* speed_regex matches, with the number and the unit; trig: vlan_regex
\* ("vlan") or mac_addr_regex ("mac", with the address) matches.  The header
\* pattern starts at 'Interface' and the others at white space, and the VLAN
\* and MAC patterns exclude each other; a line may hold both a bandwidth and
\* one of the two.
OtherLine ==
    [hdr |-> FALSE, name |-> "", descr |-> "", admin |-> FALSE, up |-> FALSE,
     bw |-> FALSE, num |-> 0, unit |-> "", trig |-> "none", addr |-> ""]
HeaderLine(name, descr, admin, up) ==
    [OtherLine EXCEPT !.hdr = TRUE, !.name = name, !.descr = descr,
                      !.admin = admin, !.up = up]
BwLine(num, unit) == [OtherLine EXCEPT !.bw = TRUE, !.num = num, !.unit = unit]
VlanLine == [OtherLine EXCEPT !.trig = "vlan"]
MacLine(addr) == [OtherLine EXCEPT !.trig = "mac", !.addr = addr]

IfLines ==
    {OtherLine, VlanLine, MacLine("a493.4cc1.67a7")}
    \cup {HeaderLine("Gi0/0", "outside", FALSE, TRUE),
          HeaderLine("Gi0/1", "inside", TRUE, FALSE),
          HeaderLine("Gi0/1.10", "", FALSE, FALSE)}
    \cup {BwLine(100, "Mb"), BwLine(1000000, "Kb"), BwLine(10, "Gb")}
    \cup {[BwLine(1000, "Mb") EXCEPT !.trig = "vlan"]}

\* napalm_base.helpers.mac: the address in the colon form
mac(addr) == IF addr = "a493.4cc1.67a7" THEN "A4:93:4C:C1:67:A7" ELSE addr

\* the speed in Mbps: int(round(float(num) / 1000.0)) for Kb, num * 1000 for
\* Gb (no number of IfLines lies half way between two integers)
SpeedMbps(num, unit) ==
    IF unit = "Kb" THEN (num + 500) \div 1000
    ELSE IF unit = "Gb" THEN num * 1000
    ELSE num

\* the working fields: '' is "", the speed '' is <<>> and an integer n is
\* <<n>>, the flags are None, "True" or "False"
IfReset(st) ==
    [st EXCEPT !.interface = "", !.description = "", !.mac_address = "",
               !.speed = <<>>, !.is_enabled = None, !.is_up = None]

IfStart ==
    [interface |-> "", description |-> "", mac_address |-> "", speed |-> <<>>,
     is_enabled |-> None, is_up |-> None, interface_dict |-> <<>>, raised |-> ""]

Bool(b) == IF b THEN "True" ELSE "False"
IsBool(x) == x \in {"True", "False"}

\* interface_dict[interface] = {...}
IfCommit(st) ==
    LET entry == [is_enabled |-> st.is_enabled, is_up |-> st.is_up,
                  description |-> st.description, mac_address |-> st.mac_address,
                  last_flapped |-> "-1.0", speed |-> st.speed]
        d == st.interface_dict
    IN [st EXCEPT !.interface_dict =
            [k \in DOMAIN d \cup {st.interface} |->
                IF k = st.interface THEN entry ELSE d[k]]]

IfHeader(st, line) ==
    IF line.hdr
    THEN [st EXCEPT !.interface = line.name, !.description = line.descr,
                    !.is_enabled = Bool(~line.admin), !.is_up = Bool(line.up)]
    ELSE st

IfSpeed(st, line) ==
    IF line.bw THEN [st EXCEPT !.speed = <<SpeedMbps(line.num, line.unit)>>] ELSE st

\* the VLAN-identifier line commits and resets
IfVlan(st, line) ==
    IF line.trig = "vlan" THEN IfReset(IfCommit(st)) ELSE st

\* the MAC-address line checks, commits and resets
IfMac(st, line) ==
    IF line.trig = "mac"
    THEN LET m == [st EXCEPT !.mac_address = mac(line.addr)]
         IN IF m.interface = "" THEN [m EXCEPT !.raised = "ValueError"]
            ELSE IF ~IsBool(m.is_up) \/ ~IsBool(m.is_enabled)
            THEN [m EXCEPT !.raised = "ValueError"]
            ELSE IfReset(IfCommit(m))
    ELSE st

\* one turn of the loop over the lines
IfLine(st, line) == IfMac(IfVlan(IfSpeed(IfHeader(st, line), line), line), line)

RECURSIVE IfScan(_, _)
IfScan(st, lines) ==
    IF lines = <<>> \/ st.raised # "" THEN st
    ELSE IfScan(IfLine(st, Head(lines)), Tail(lines))

\* reply.output is what the device answers to 'show interface', and
\* reply.failAt whether the transport fails at the command
get_interfaces ==
    LET o == SendOutcome(1, reply.failAt)
        st == IfScan(IfStart, reply.output)
    IN /\ op' = "get_interfaces"
       /\ prev' = Last
       /\ sent' = << <<"show", "interface">> >>
       /\ result' = IF o # "ok" THEN Raised(o)
                    ELSE IF st.raised # "" THEN Raised(st.raised)
                    ELSE Returned(st.interface_dict)
       /\ UNCHANGED <<diff_adds, load_called, optional_args, device, context, dest_file_system,
                      candidate_config, devctx, running, reply>>

\* ---------------------------------------------- get_interfaces_counters

\* A line of 'show interface', by the one pattern of get_interfaces_counters
\* that finds something in it (the header pattern starts at 'Interface', the
\* others at white space, a number and words that differ): kind is
\* "interface" (with the name), "packets_in" and "packets_out" (with the
\* packets n and the bytes), "broadcast", "errors_in" and "errors_out" (with
\* the number n).
CtLine(kind, name, n, bytes) == [kind |-> kind, name |-> name, n |-> n, bytes |-> bytes]
CtInterface(name) == CtLine("interface", name, 0, 0)
CtPacketsIn(n, bytes) == CtLine("packets_in", "", n, bytes)
CtBroadcast(n) == CtLine("broadcast", "", n, 0)
CtErrorsIn(n) == CtLine("errors_in", "", n, 0)
CtPacketsOut(n, bytes) == CtLine("packets_out", "", n, bytes)
CtErrorsOut(n) == CtLine("errors_out", "", n, 0)

CtLines ==
    {CtInterface("Gi0/0"), CtInterface("Gi0/1"),
     CtPacketsIn(100, 9000), CtPacketsIn(7, 700), CtBroadcast(10),
     CtErrorsIn(2), CtPacketsOut(50, 4000), CtErrorsOut(1)}

\* the locals before the loop: counters is {}, interface is '', and
\* packets_in and bytes_in are not bound yet (<<>>; <<n>> once bound)
CtStart ==
    [interface |-> "", packets_in |-> <<>>, bytes_in |-> <<>>,
     counters |-> <<>>, raised |-> ""]

\* counters[interface] = entry
CtPut(st, entry) ==
    LET d == st.counters
    IN [st EXCEPT !.counters =
            [k \in DOMAIN d \cup {st.interface} |->
                IF k = st.interface THEN entry ELSE d[k]]]

\* counters[interface][key] = value, for the keys of fields
CtSet(st, fields) ==
    IF st.interface \notin DOMAIN st.counters
    THEN [st EXCEPT !.raised = "KeyError"]
    ELSE CtPut(st, fields @@ st.counters[st.interface])

\* the header line as it would be if it kept the counts of the block before
CtHeaderKeeping(st, line) ==
    [st EXCEPT !.interface = line.name,
               !.packets_in = IF st.packets_in = <<>> THEN <<-1>> ELSE st.packets_in,
               !.bytes_in = IF st.bytes_in = <<>> THEN <<-1>> ELSE st.bytes_in]

\* the header line: the name, and every count back to -1
CtHeader(st, line) ==
    [st EXCEPT !.interface = line.name, !.packets_in = <<-1>>, !.bytes_in = <<-1>>]

\* the broadcast line: the inbound half of a new entry
CtBroadcastIn(st, line) ==
    IF st.packets_in = <<>> \/ st.bytes_in = <<>>
    THEN [st EXCEPT !.raised = "UnboundLocalError"]
    ELSE CtPut(st, [rx_unicast_packets |-> st.packets_in[1] - line.n,
                    rx_octets |-> st.bytes_in[1],
                    rx_broadcast_packets |-> line.n,
                    rx_multicast_packets |-> -1])

\* one turn of the loop over the lines
CtTurn(st, line) ==
    CASE line.kind = "interface" -> CtHeader(st, line)
      [] line.kind = "packets_in" ->
            [st EXCEPT !.packets_in = <<line.n>>, !.bytes_in = <<line.bytes>>]
      [] line.kind = "broadcast" -> CtBroadcastIn(st, line)
      [] line.kind = "errors_in" ->
            CtSet(st, [rx_errors |-> line.n, rx_discards |-> -1])
      [] line.kind = "packets_out" ->
            CtSet(st, [tx_unicast_packets |-> line.n, tx_octets |-> line.bytes,
                       tx_broadcast_packets |-> -1, tx_multicast_packets |-> -1])
      [] line.kind = "errors_out" ->
            CtSet(st, [tx_errors |-> line.n, tx_discards |-> -1])

RECURSIVE CtScan(_, _)
CtScan(st, lines) ==
    IF lines = <<>> \/ st.raised # "" THEN st
    ELSE CtScan(CtTurn(st, Head(lines)), Tail(lines))

\* reply.output is what the device answers to 'show interface', and
\* reply.failAt whether the transport fails at the command
get_interfaces_counters ==
    LET o == SendOutcome(1, reply.failAt)
        st == CtScan(CtStart, reply.output)
    IN /\ op' = "get_interfaces_counters"
       /\ prev' = Last
       /\ sent' = << <<"show", "interface">> >>
       /\ result' = IF o # "ok" THEN Raised(o)
                    ELSE IF st.raised # "" THEN Raised(st.raised)
                    ELSE Returned(st.counters)
       /\ UNCHANGED <<diff_adds, load_called, optional_args, device, context, dest_file_system,
                      candidate_config, devctx, running, reply>>

\* --------------------------------------------------------- parse_uptime

HOUR_SECONDS == 3600
DAY_SECONDS == 24 * HOUR_SECONDS
WEEK_SECONDS == 7 * DAY_SECONDS
YEAR_SECONDS == 365 * DAY_SECONDS

\* An element that re.split(r"(\d+ \S+)", uptime_str) cuts out: the number
\* and the word after it.  Holds(word) is the set of the unit names that
\* re.search finds in the word.
Holds(word) ==
    CASE word = "years," -> {"year"}
      [] word = "weeks," -> {"week"}
      [] word = "days," -> {"day"}
      [] word = "hours," -> {"hour"}
      [] word = "mins" -> {"min"}
      [] word = "secs" -> {"sec"}
      [] OTHER -> {}

UptimeWords == {"years,", "weeks,", "days,", "hours,", "mins", "secs", "ms"}
UptimeElements == [n : 1..2, word : UptimeWords]

UptimeStart ==
    [years |-> 0, weeks |-> 0, days |-> 0, hours |-> 0, minutes |-> 0, seconds |-> 0]

\* one turn of the loop over time_list: the if/elif chain
UptimeTurn(t, element) ==
    LET h == Holds(element.word)
    IN IF "year" \in h THEN [t EXCEPT !.years = element.n]
       ELSE IF "week" \in h THEN [t EXCEPT !.weeks = element.n]
       ELSE IF "day" \in h THEN [t EXCEPT !.days = element.n]
       ELSE IF "hour" \in h THEN [t EXCEPT !.hours = element.n]
       ELSE IF "min" \in h THEN [t EXCEPT !.minutes = element.n]
       ELSE IF "sec" \in h THEN [t EXCEPT !.seconds = element.n]
       ELSE t

RECURSIVE UptimeScan(_, _)
UptimeScan(t, time_list) ==
    IF time_list = <<>> THEN t
    ELSE UptimeScan(UptimeTurn(t, Head(time_list)), Tail(time_list))

\* the seconds that parse_uptime returns for the elements of uptime_str
UptimeSeconds(time_list) ==
    LET t == UptimeScan(UptimeStart, time_list)
    IN (t.years * YEAR_SECONDS) + (t.weeks * WEEK_SECONDS) + (t.days * DAY_SECONDS)
           + (t.hours * 3600) + (t.minutes * 60) + t.seconds

\* reply.uptime_str is the string, as its elements
parse_uptime ==
    /\ op' = "parse_uptime"
    /\ prev' = Last
    /\ sent' = <<>>
    /\ result' = Returned(UptimeSeconds(reply.uptime_str))
    /\ UNCHANGED <<diff_adds, load_called, optional_args, device, context, dest_file_system,
                   candidate_config, devctx, running, reply>>

\* ------------------------------------------------------------ get_facts

\* A line of 'show version', by what get_facts looks for in it: version is
\* where 'Cisco Adaptive Security Appliance Software Version' stands ("none",
\* at the "start" of the line, or "inside" it) and ver the word after it; up
\* is whether hostname + ' up ' is in the line (once) and uptime_str the
\* elements of what follows it; serial is <<>> or <<s>>, s standing after
\* 'Serial Number: '.
VerLine(version, ver, up, uptime_str, serial) ==
    [version |-> version, ver |-> ver, up |-> up, uptime_str |-> uptime_str,
     serial |-> serial]

\* the outputs of 'show version' tried: none, the one of a device, and one
\* whose version words do not start their line
ShowVersions ==
    { <<>>,
      << VerLine("start", "9.8(2)", FALSE, <<>>, <<>>),
         VerLine("none", "", TRUE,
                 << [n |-> 3, word |-> "days,"], [n |-> 4, word |-> "hours,"] >>, <<>>),
         VerLine("none", "", FALSE, <<>>, <<"JAD2046">>) >>,
      << VerLine("inside", "9.8(2)", FALSE, <<>>, <<>>) >> }

\* the loop over show_ver.splitlines(): f holds os_version, uptime,
\* serial_number and the exception raised
FactsVerTurn(f, line) ==
    LET f1 == IF line.version = "none" THEN f
              ELSE IF line.version = "inside" THEN [f EXCEPT !.raised = "AttributeError"]
              ELSE [f EXCEPT !.os_version = line.ver]
        f2 == IF line.up THEN [f1 EXCEPT !.uptime = UptimeSeconds(line.uptime_str)] ELSE f1
        f3 == IF line.serial # <<>> THEN [f2 EXCEPT !.serial_number = line.serial[1]] ELSE f2
    IN IF f1.raised # "" THEN f1 ELSE f3

RECURSIVE FactsVerScan(_, _)
FactsVerScan(f, lines) ==
    IF lines = <<>> \/ f.raised # "" THEN f
    ELSE FactsVerScan(FactsVerTurn(f, Head(lines)), Tail(lines))

\* A line of 'show inventory': chassis is whether 'Name: "Chassis"' is in
\* it, entry the name when it is the Name line of an entry ("" otherwise),
\* pid is <<>> or <<p>>, p standing after 'PID: ', and spaced whether a space
\* follows p (the pattern r'PID: (\S*) .*' asks for one).
InvLine(chassis, entry, pid, spaced) ==
    [chassis |-> chassis, entry |-> entry, pid |-> pid, spaced |-> spaced]
InvName(entry) == InvLine(entry = "Chassis", entry, <<>>, FALSE)
InvPid(pid, spaced) == InvLine(FALSE, "", <<pid>>, spaced)

InvLines ==
    {InvName("Chassis"), InvName("module 1"),
     InvPid("ASA5516", TRUE), InvPid("SSD-120", TRUE), InvPid("ASA5516", FALSE),
     InvLine(FALSE, "", <<>>, FALSE)}

\* if chassis_flag and "PID: " in line
FactsInvPid(s, line) ==
    IF s.chassis_flag /\ line.pid # <<>>
    THEN IF ~line.spaced THEN [s EXCEPT !.raised = "AttributeError"]
         ELSE [s EXCEPT !.model = line.pid[1], !.chassis_flag = FALSE]
    ELSE s

\* one turn of the loop over show_inventory.splitlines()
FactsInvTurn(s, line) ==
    FactsInvPid(IF line.chassis THEN [s EXCEPT !.chassis_flag = TRUE] ELSE s, line)

RECURSIVE FactsInvScan(_, _)
FactsInvScan(s, lines) ==
    IF lines = <<>> \/ s.raised # "" THEN s
    ELSE FactsInvScan(FactsInvTurn(s, Head(lines)), Tail(lines))

\* str.strip on the output of 'show hostname' and 'show hostname fqdn': the
\* word between the white space
strip(output) == output.word
ShowHostname == [word |-> "asa1", before |-> "", after |-> "\n"]
ShowFqdn == [word |-> "asa1.example.com", before |-> "", after |-> "\n"]

\* the lines of 'show interface ip brief', each with what
\* r'\S+\d+\/\d+\.?\d*' finds in it (<<>>: nothing)
ShowInterfaceIpBrief ==
    << <<>>, <<"GigabitEthernet0/0">>, <<"GigabitEthernet0/1.10">>, <<"Management0/0">> >>

RECURSIVE FactsInterfaceList(_)
FactsInterfaceList(lines) ==
    IF lines = <<>> THEN <<>> ELSE Head(lines) \o FactsInterfaceList(Tail(lines))

\* the five commands of get_facts, in order
FactsCommands ==
    << <<"show", "version">>, <<"show", "hostname">>, <<"show", "hostname", "fqdn">>,
       <<"show", "inventory">>, <<"show", "interface", "ip", "brief">> >>

\* reply.show_ver and reply.show_inventory are what the device answers to
\* 'show version' and 'show inventory', reply.failAt the send at which the
\* transport fails
get_facts ==
    LET F == {n \in 1..Len(FactsCommands) : SendOutcome(n, reply.failAt) # "ok"}
        n == CHOOSE k \in F : \A j \in F : k <= j
        f == FactsVerScan([os_version |-> "Unknown", uptime |-> -1,
                           serial_number |-> "Unknown", raised |-> ""],
                          reply.show_ver)
        s == FactsInvScan([model |-> "Unknown", chassis_flag |-> FALSE, raised |-> ""],
                          reply.show_inventory)
    IN /\ op' = "get_facts"
       /\ prev' = Last
       /\ sent' = IF F = {} THEN FactsCommands ELSE SubSeq(FactsCommands, 1, n)
       /\ result' = IF F # {} THEN Raised(SendOutcome(n, reply.failAt))
                    ELSE IF f.raised # "" THEN Raised(f.raised)
                    ELSE IF s.raised # "" THEN Raised(s.raised)
                    ELSE Returned([uptime |-> f.uptime,
                                   vendor |-> "Cisco",
                                   os_version |-> f.os_version,
                                   serial_number |-> f.serial_number,
                                   model |-> s.model,
                                   hostname |-> strip(ShowHostname),
                                   fqdn |-> strip(ShowFqdn),
                                   interface_list |-> FactsInterfaceList(ShowInterfaceIpBrief)])
       /\ UNCHANGED <<diff_adds, load_called, optional_args, device, context,
                      dest_file_system, candidate_config, devctx, running, reply>>

\* ------------------------------------------------------- specifications

\* the configuration workflow of a driver constructed without optional_args
InitConfig == Init /\ ~optional_args.given

NextConfig ==
    \/ \E conn \in BOOLEAN, fs \in {"unsupported", "disk0:", "flash:"} : open(conn, fs)
    \/ close
    \/ \E filename \in Files, config \in Configs :
            load_replace_candidate(filename, config)
    \/ \E failAt \in 0..1 : compare_config(failAt)
    \/ discard_config
    \/ \E failAt \in 0..2 : commit_config(failAt)

SpecConfig == InitConfig /\ [][NextConfig]_vars

\* the session and its contexts, for every optional_args
InitSession == Init /\ running = << <<"names">> >> /\ diff_adds

NextSession ==
    \/ \E conn \in BOOLEAN, fs \in {"unsupported", "disk0:", "flash:"} : open(conn, fs)
    \/ close
    \/ \E vrf \in Vrfs, output \in PingOutputs, failAt \in 0..3 : ping(vrf, output, failAt)

SpecSession == InitSession /\ [][NextSession]_vars
\* get_interfaces on an open session, for every output of 'show interface' of
\* at most MaxIfLines lines
InitInterfaces ==
    /\ optional_args = [given |-> FALSE, context |-> None, dest_file_system |-> None]
    /\ device = "connected"
    /\ context = InitContext(optional_args)
    /\ dest_file_system = "disk0:"
    /\ candidate_config = NoCandidate
    /\ devctx = "system"
    /\ running = <<>>
    /\ diff_adds = TRUE
    /\ op = "open"
    /\ prev = [op |-> "__init__", status |-> "returned"]
    /\ load_called = FALSE
    /\ sent = << <<"ConnectHandler">>, <<"enable">>, <<"changeto", "system">>,
                 <<"_autodetect_fs">> >>
    /\ reply \in [output : SeqsUpTo(IfLines, MaxIfLines), failAt : 0..1]
    /\ result = Returned(None)

NextInterfaces == get_interfaces

SpecInterfaces == InitInterfaces /\ [][NextInterfaces]_vars

\* get_interfaces_counters on an open session, for every output of 'show
\* interface' of at most MaxCtLines lines
InitCounters ==
    /\ optional_args = [given |-> FALSE, context |-> None, dest_file_system |-> None]
    /\ device = "connected"
    /\ context = InitContext(optional_args)
    /\ dest_file_system = "disk0:"
    /\ candidate_config = NoCandidate
    /\ devctx = "system"
    /\ running = <<>>
    /\ diff_adds = TRUE
    /\ op = "open"
    /\ prev = [op |-> "__init__", status |-> "returned"]
    /\ load_called = FALSE
    /\ sent = << <<"ConnectHandler">>, <<"enable">>, <<"changeto", "system">>,
                 <<"_autodetect_fs">> >>
    /\ reply \in [output : SeqsUpTo(CtLines, MaxCtLines), failAt : 0..1]
    /\ result = Returned(None)

NextCounters == get_interfaces_counters

SpecCounters == InitCounters /\ [][NextCounters]_vars

\* the liveness probe on a session that is opened and closed
InitAlive == Init /\ running = <<>> /\ diff_adds

NextAlive ==
    \/ \E conn \in BOOLEAN, fs \in {"unsupported", "disk0:", "flash:"} : open(conn, fs)
    \/ close
    \/ \E probe \in ProbeOutcomes, active \in BOOLEAN : is_alive(probe, active)

SpecAlive == InitAlive /\ [][NextAlive]_vars

\* parse_uptime (a static method) for every uptime string of at most
\* MaxUptime components
InitUptime ==
    /\ optional_args = [given |-> FALSE, context |-> None, dest_file_system |-> None]
    /\ device = None
    /\ context = InitContext(optional_args)
    /\ dest_file_system = InitDestFileSystem(optional_args)
    /\ candidate_config = NoCandidate
    /\ devctx = "system"
    /\ running = <<>>
    /\ diff_adds = TRUE
    /\ op = "__init__"
    /\ prev = [op |-> None, status |-> None]
    /\ load_called = FALSE
    /\ sent = <<>>
    /\ reply \in [uptime_str : SeqsUpTo(UptimeElements, MaxUptime)]
    /\ result = Returned(None)

NextUptime == parse_uptime

SpecUptime == InitUptime /\ [][NextUptime]_vars

\* the cleaner (which reads no field of the driver) for every text of at most
\* MaxCleanLines lines
InitCleaner ==
    /\ optional_args = [given |-> FALSE, context |-> None, dest_file_system |-> None]
    /\ device = None
    /\ context = InitContext(optional_args)
    /\ dest_file_system = InitDestFileSystem(optional_args)
    /\ candidate_config = NoCandidate
    /\ devctx = "system"
    /\ running = <<>>
    /\ diff_adds = TRUE
    /\ op = "__init__"
    /\ prev = [op |-> None, status |-> None]
    /\ load_called = FALSE
    /\ sent = <<>>
    /\ reply \in {r \in [output : [lines : SeqsUpTo(CleanerLines, MaxCleanLines),
                                   nl : BOOLEAN]] : IsText(r.output)}
    /\ result = Returned(None)

NextCleaner == process_config_output

SpecCleaner == InitCleaner /\ [][NextCleaner]_vars

\* _send_command on an open session, for every list of at most MaxCmds
\* commands and every single command
InitSend ==
    /\ optional_args = [given |-> FALSE, context |-> None, dest_file_system |-> None]
    /\ device = "connected"
    /\ context = InitContext(optional_args)
    /\ dest_file_system = "disk0:"
    /\ candidate_config = NoCandidate
    /\ devctx = "system"
    /\ running = <<>>
    /\ diff_adds = TRUE
    /\ op = "open"
    /\ prev = [op |-> "__init__", status |-> "returned"]
    /\ load_called = FALSE
    /\ sent = << <<"ConnectHandler">>, <<"enable">>, <<"changeto", "system">>,
                 <<"_autodetect_fs">> >>
    /\ reply \in [command : {CommandList(c) : c \in SeqsUpTo(Commands, MaxCmds)}
                               \cup {OneCommand(c) : c \in Commands},
                   invalid : [1..MaxCmds -> BOOLEAN],
                   failAt : 0..2]
    /\ result = Returned(None)

NextSend == _send_command

SpecSend == InitSend /\ [][NextSend]_vars

\* get_facts on an open session, for every output of 'show inventory' of at
\* most MaxInvLines lines
InitFacts ==
    /\ optional_args = [given |-> FALSE, context |-> None, dest_file_system |-> None]
    /\ device = "connected"
    /\ context = InitContext(optional_args)
    /\ dest_file_system = "disk0:"
    /\ candidate_config = NoCandidate
    /\ devctx = "system"
    /\ running = <<>>
    /\ diff_adds = TRUE
    /\ op = "open"
    /\ prev = [op |-> "__init__", status |-> "returned"]
    /\ load_called = FALSE
    /\ sent = << <<"ConnectHandler">>, <<"enable">>, <<"changeto", "system">>,
                 <<"_autodetect_fs">> >>
    /\ reply \in [show_inventory : SeqsUpTo(InvLines, MaxInvLines),
                   show_ver : ShowVersions,
                   failAt : 0..5]
    /\ result = Returned(None)

NextFacts == get_facts

SpecFacts == InitFacts /\ [][NextFacts]_vars

\* ---------------------------------------------------------------- claims

Queries == {"compare_config", "commit_config"}

SendsConfig == \E i \in 1..Len(sent) : sent[i][1] = "send_config_set"

\* C1: on a session on which load_replace_candidate was never called, every
\* compare_config and every commit_config raises; none returns a result, and
\* commit_config sends no configuration to the device.
C1_NeverLoadedRaises ==
    (op \in Queries /\ ~load_called) =>
        /\ result.status = "raised"
        /\ ~SendsConfig

\* a compare on a connected, never-loaded session, with a working transport
C1_Witness ==
    /\ op = "compare_config"
    /\ ~load_called
    /\ device = "connected"
    /\ reply.failAt = 0
    /\ result = Raised("AttributeError")

\* C2: after a commit_config that succeeded, a compare_config or
\* commit_config issued directly afterwards raises the no-candidate error
\* (the candidate is Empty again).
C2_CommitEmptiesCandidate ==
    (prev.op = "commit_config" /\ prev.status = "returned" /\ op \in Queries) =>
        result.status = "raised"

\* C3: after discard_config the session answers compare_config and
\* commit_config as a session without candidate does: what either would
\* return now is what it returns with no candidate, an error, and a compare
\* or commit called right after the discard raised exactly that.
C3_DiscardLikeFresh ==
    /\ op = "discard_config" =>
         \A f \in 0..1 :
            /\ _get_candidate_diff_lines(candidate_config, f)
                 = _get_candidate_diff_lines(NoCandidate, f)
            /\ _get_candidate_diff_lines(candidate_config, f).status = "raised"
    /\ (prev.op = "discard_config" /\ op \in Queries) =>
         /\ result = _get_candidate_diff_lines(NoCandidate, reply.failAt)
         /\ result.status = "raised"
         /\ ~SendsConfig

\* a compare right after the discard of a candidate that had been loaded
C3_Witness ==
    /\ op = "compare_config"
    /\ prev.op = "discard_config"
    /\ load_called
    /\ device = "connected"
    /\ reply.failAt = 0
    /\ result = Raised("AttributeError")

\* the context switch that brings the device back to the configured context
ExpectedRestore ==
    IF Truthy(context) /\ context # "system"
    THEN <<"changeto", "context", context>>
    ELSE <<"changeto", "system">>

\* C4: when ping was called with a vrf and returned, the last command sent is
\* the restoring switch: 'changeto context <name>' if a context other than
\* system is configured, 'changeto system' otherwise (also with no context).
C4_PingRestoresContext ==
    (op = "ping" /\ Truthy(reply.vrf) /\ result.status = "returned") =>
        /\ sent # <<>>
        /\ sent[Len(sent)] = ExpectedRestore

\* C5: when ping was called with a vrf, the temporary switch was sent, and the
\* ping command failed in the transport or its output could not be parsed,
\* the restoring switch was still sent, last.
C5_PingRestoresOnFailure ==
    (/\ op = "ping"
     /\ Truthy(reply.vrf)
     /\ device = "connected"
     /\ result.status = "raised"
     /\ (reply.failAt = 2 \/ result.exc = "IndexError")) =>
        /\ sent # <<>>
        /\ sent[Len(sent)] = ExpectedRestore

\* C6: a result of ping never holds both the error and the success variant.
C6_PingOneVariant ==
    (op = "ping" /\ result.status = "returned") =>
        ~(result.value.error # None /\ result.value.success.present)

\* C7: when the output of the ping command holds the error marker '%', the
\* result holds the error variant, with that output, and no success variant,
\* whatever else the output holds.
C7_PingErrorMarker ==
    (op = "ping" /\ result.status = "returned" /\ reply.output.pct) =>
        /\ result.value.error = "ping"
        /\ ~result.value.success.present

\* an output with the marker, 'Sending' and a full rate line
C7_Witness ==
    /\ op = "ping"
    /\ result.status = "returned"
    /\ reply.output = [pct |-> TRUE, sending |-> TRUE, rate |-> "some"]
    /\ result.value.error = "ping"

\* C8: when open returns, it has established the session, forced enable
\* mode, sent 'changeto system' and then 'changeto context <name>' exactly
\* when a context other than 'system' is configured, in this order; the
\* device is then in the configured context (the system context when none or
\* 'system' is configured).
C8_OpenOrder ==
    (op = "open" /\ result.status = "returned") =>
        LET cmds == SelectSeq(sent, LAMBDA c : c # <<"_autodetect_fs">>)
            named == context \notin {None, "system"}
        IN /\ cmds = << <<"ConnectHandler">>, <<"enable">>, <<"changeto", "system">> >>
                     \o (IF named THEN << <<"changeto", "context", context>> >> ELSE <<>>)
           /\ (named /\ context \in DeviceContexts) => devctx = context
           /\ ~named => devctx = "system"

\* an open with a named context configured
C8_Witness ==
    /\ op = "open"
    /\ result.status = "returned"
    /\ context = "ctxB"
    /\ devctx = "ctxB"
    /\ Len(sent) = 5

\* C9: when open returns the storage identifier is set; with an override
\* configured it is the override, detection is not invoked, and open does not
\* fail for a transport without detection; without override and without
\* detection open raises.
C9_StorageOverride ==
    op = "open" =>
        /\ result.status = "returned" => Truthy(dest_file_system)
        /\ (optional_args.given /\ Truthy(optional_args.dest_file_system) /\ reply.conn) =>
              /\ result.status = "returned"
              /\ dest_file_system = optional_args.dest_file_system
              /\ \A i \in 1..Len(sent) : sent[i] # <<"_autodetect_fs">>
        /\ (~Truthy(optional_args.dest_file_system) /\ reply.conn
              /\ reply.fs = "unsupported" /\ ~Truthy(dest_file_system)) =>
              result.status = "raised"
\* C10: get_interfaces never returns a mapping with an entry under the empty
\* interface name or with flags that are not booleans: a commit at a VLAN or
\* MAC line with no header seen since the last commit raises instead.
C10_NoHalfPopulatedRecord ==
    (op = "get_interfaces" /\ result.status = "returned") =>
        \A k \in DOMAIN result.value :
            /\ k # ""
            /\ IsBool(result.value[k].is_enabled)
            /\ IsBool(result.value[k].is_up)

\* C11: load_replace_candidate is the only operation that takes the candidate
\* from Empty to Loaded, and a load that is given both a file and a raw text
\* leaves the content of the file as the candidate, not the text.
C11_LoadOnlyAndFileFirst ==
    /\ [][(~candidate_config.loaded /\ candidate_config'.loaded)
              => op' = "load_replace_candidate"]_vars
    /\ []((/\ op = "load_replace_candidate"
           /\ result.status = "returned"
           /\ Truthy(reply.filename.name)
           /\ reply.config.given)
              => candidate_config = Candidate(reply.filename.content))

\* a load of a file and a different text, on a candidate that was Empty
C11_Witness ==
    /\ op = "load_replace_candidate"
    /\ prev.op = "discard_config"
    /\ result.status = "returned"
    /\ reply.filename = File(<< <<"names">> >>)
    /\ reply.config = Config(<< <<"no", "pager">> >>)
    /\ candidate_config = Candidate(<< <<"names">> >>)

\* C12: a compare_config on a Loaded candidate leaves the candidate as it
\* was, the same document and still Loaded, however many compares follow one
\* another.
C12_CompareKeepsCandidate ==
    [][(op' = "compare_config" /\ candidate_config.loaded)
           => candidate_config' = candidate_config]_vars

\* the second of two compares in a row that returned, the candidate Loaded
C12_Witness ==
    /\ op = "compare_config"
    /\ prev = [op |-> "compare_config", status |-> "returned"]
    /\ result.status = "returned"
    /\ candidate_config = Candidate(<< <<"names">> >>)

\* the place of the header line that governs line i of the output (0: none)
CtHeaderOf(out, i) ==
    LET H == {h \in 1..(i - 1) : out[h].kind = "interface"}
    IN IF H = {} THEN 0 ELSE CHOOSE h \in H : \A g \in H : g <= h

\* the interface that line i of the output belongs to
CtNameOf(out, i) ==
    IF CtHeaderOf(out, i) = 0 THEN "" ELSE out[CtHeaderOf(out, i)].name

\* the broadcast lines of the output in the blocks of interface name
CtBroadcastsOf(out, name) ==
    {i \in 1..Len(out) : out[i].kind = "broadcast" /\ CtNameOf(out, i) = name}

\* the interfaces that the output names in a header
CtNames(out) == {out[h].name : h \in {g \in 1..Len(out) : out[g].kind = "interface"}}

\* C13: for every interface of the output none of whose blocks holds a
\* broadcast-in line, the mapping returned has an entry whose
\* rx_broadcast_packets is -1 and whose rx_unicast_packets is still -1.
C13_NoBroadcastGivesSentinels ==
    (op = "get_interfaces_counters" /\ result.status = "returned") =>
        \A name \in CtNames(reply.output) :
            CtBroadcastsOf(reply.output, name) = {} =>
                /\ name \in DOMAIN result.value
                /\ result.value[name].rx_broadcast_packets = -1
                /\ result.value[name].rx_unicast_packets = -1

\* C14: get_interfaces_counters returns a mapping for every output that
\* starts with a header line, whichever counter lines its blocks lack, when
\* the transport works.
C14_MissingLineNeverRaises ==
    (/\ op = "get_interfaces_counters"
     /\ reply.failAt = 0
     /\ reply.output # <<>>
     /\ reply.output[1].kind = "interface")
        => result.status = "returned"

\* C15: every entry of the mapping returned comes from the last broadcast-in
\* line of its interface, and its rx_unicast_packets + rx_broadcast_packets
\* is the count of the last packets-input line between the header of that
\* block and that broadcast-in line, or -1 when there is none; it is never a
\* count of a block before.
C15_UnicastPlusBroadcast ==
    (op = "get_interfaces_counters" /\ result.status = "returned") =>
        \A name \in DOMAIN result.value :
            LET out == reply.output
                B == CtBroadcastsOf(out, name)
                b == CHOOSE i \in B : \A j \in B : j <= i
                P == {j \in (CtHeaderOf(out, b) + 1)..(b - 1) : out[j].kind = "packets_in"}
                p == CHOOSE j \in P : \A k \in P : k <= j
                entry == result.value[name]
            IN /\ B # {}
               /\ entry.rx_unicast_packets + entry.rx_broadcast_packets
                      = IF P = {} THEN -1 ELSE out[p].n

\* a second block with a broadcast-in line and no packets-input line of its
\* own, after a block that has one
C15_Witness ==
    /\ op = "get_interfaces_counters"
    /\ result.status = "returned"
    /\ reply.output = <<CtInterface("Gi0/0"), CtPacketsIn(100, 9000),
                        CtInterface("Gi0/1"), CtBroadcast(10)>>
    /\ result.value["Gi0/1"].rx_unicast_packets = -11

\* C15 as the specification states it: for every interface with a
\* broadcast-in line, rx_unicast_packets + rx_broadcast_packets is the count
\* of a packets-input line of the block of that broadcast-in line.
C15_SumIsPacketsInput ==
    (op = "get_interfaces_counters" /\ result.status = "returned") =>
        \A name \in DOMAIN result.value :
            LET out == reply.output
                B == CtBroadcastsOf(out, name)
                b == CHOOSE i \in B : \A j \in B : j <= i
                entry == result.value[name]
            IN \E j \in 1..Len(out) :
                    /\ out[j].kind = "packets_in"
                    /\ CtHeaderOf(out, j) = CtHeaderOf(out, b)
                    /\ entry.rx_unicast_packets + entry.rx_broadcast_packets = out[j].n

\* C16: on a session that was opened, is_alive never raises for a failure of
\* the send of the null byte: when the send fails with socket.error (an I/O
\* error) or EOFError (a closed connection) it returns is_alive False, and
\* when the send succeeds it returns what the transport's is_active() says.
C16_ProbeFailureIsNotAlive ==
    (op = "is_alive" /\ device # None) =>
        /\ result.status = "returned"
        /\ reply.probe \in ProbeFailures => result.value = [is_alive |-> FALSE]
        /\ reply.probe = "ok" => result.value = [is_alive |-> reply.active]

\* the probe meets a closed connection while the transport still says active
C16_Witness ==
    /\ op = "is_alive"
    /\ device = "connected"
    /\ reply = [probe |-> "EOFError", active |-> TRUE]
    /\ result = Returned([is_alive |-> FALSE])

\* the orders in which n components can stand
Reorderings(n) == {f \in [1..n -> 1..n] : \A i, j \in 1..n : f[i] = f[j] => i = j}

\* C17: for every uptime string made of recognized '<number> <unit>'
\* components, parse_uptime returns the same seconds for every reordering of
\* the components.
C17_UptimeOrderIndependent ==
    (/\ op = "parse_uptime"
     /\ \A i \in 1..Len(reply.uptime_str) : Holds(reply.uptime_str[i].word) # {})
        => \A f \in Reorderings(Len(reply.uptime_str)) :
               UptimeSeconds([i \in 1..Len(reply.uptime_str) |-> reply.uptime_str[f[i]]])
                   = result.value

\* C18: the cleaner given the text it returned returns exactly that text
\* again, for every text of configuration lines, ':' lines, 'ASA Version'
\* lines and 'Cryptochecksum' lines in any order.
C18_CleanerIdempotent ==
    [][(op = "_process_config_output" /\ op' = "_process_config_output")
           => result' = result]_vars

\* the cleaner was run on its own output, for a text with two lines to drop
\* around a line to keep and no line end at its end
C18_Witness ==
    /\ op = "_process_config_output"
    /\ prev.op = "_process_config_output"
    /\ reply.output = Text(<< <<":", "Saved">>, <<"names">>, <<"Cryptochecksum", ":9a1b">> >>,
                           FALSE)
    /\ result = Returned(Text(<< <<"names">> >>, TRUE))

\* the running lines that the candidate does not retain, in running order
NotRetained == SelectSeq(running, LAMBDA l : l \notin Range(candidate_config.ioscfg))

\* whether cand is run with its i-th line left out
LeavesOut(run, cand, i) ==
    cand = SubSeq(run, 1, i - 1) \o SubSeq(run, i + 1, Len(run))

C21_ListStopsAtFirstValid ==
    (/\ op = "_send_command"
     /\ reply.command.list
     /\ reply.command.cmds # <<>>
     /\ reply.failAt = 0) =>
        LET cmds == reply.command.cmds
            V == {i \in 1..Len(cmds) : ~reply.invalid[i]}
            k == IF V = {} THEN Len(cmds) ELSE CHOOSE i \in V : \A j \in V : i <= j
        IN /\ sent = SubSeq(cmds, 1, k)
           /\ result = Returned(Output(cmds[k], reply.invalid[k]))

\* a list of three commands whose second is the first valid one
C21_Witness ==
    /\ op = "_send_command"
    /\ reply.command = CommandList(<< <<"show", "inventory">>, <<"show", "version">>,
                                      <<"show", "hostname">> >>)
    /\ reply.invalid[1] /\ ~reply.invalid[2]
    /\ reply.failAt = 0
    /\ sent = << <<"show", "inventory">>, <<"show", "version">> >>
    /\ result = Returned(Output(<<"show", "version">>, FALSE))

\* the place of the header line before line i of the output (0: none)
IfHeaderOf(out, i) ==
    LET H == {h \in 1..(i - 1) : out[h].hdr}
    IN IF H = {} THEN 0 ELSE CHOOSE h \in H : \A g \in H : g <= h

\* the lines of the output that commit interface name: the first VLAN or MAC
\* line after a header of that name
IfCommitsOf(out, name) ==
    {i \in 1..Len(out) :
        /\ out[i].trig # "none"
        /\ IfHeaderOf(out, i) # 0
        /\ out[IfHeaderOf(out, i)].name = name
        /\ \A j \in (IfHeaderOf(out, i) + 1)..(i - 1) : out[j].trig = "none"}

\* C22: the speed and the MAC address of every record that get_interfaces
\* returns come from the lines between the interface's own header and the
\* line that commits it: the speed is that of the last bandwidth line there
\* ('' when there is none), never that of a line before the header.
C22_HeaderResetsWorkingFields ==
    (op = "get_interfaces" /\ result.status = "returned") =>
        \A name \in DOMAIN result.value \ {""} :
            LET out == reply.output
                C == IfCommitsOf(out, name)
                c == CHOOSE i \in C : \A j \in C : j <= i
                S == {j \in (IfHeaderOf(out, c) + 1)..c : out[j].bw}
                b == CHOOSE j \in S : \A k \in S : k <= j
            IN /\ C # {}
               /\ result.value[name].speed
                      = IF S = {} THEN <<>> ELSE <<SpeedMbps(out[b].num, out[b].unit)>>
               /\ result.value[name].mac_address
                      = IF out[c].trig = "mac" THEN mac(out[c].addr) ELSE ""

\* the place of the Name line of the entry that line i of the inventory
\* belongs to (0: none)
InvEntryOf(out, i) ==
    LET E == {e \in 1..i : out[e].entry # ""}
    IN IF E = {} THEN 0 ELSE CHOOSE e \in E : \A g \in E : g <= e

\* C23: the model that get_facts returns is 'Unknown' or the product ID of a
\* PID line of the chassis entry of the inventory, never the product ID of
\* an entry that is not the chassis.
C23_ModelOnlyFromChassis ==
    (op = "get_facts" /\ result.status = "returned") =>
        \/ result.value.model = "Unknown"
        \/ \E i \in 1..Len(reply.show_inventory) :
               /\ reply.show_inventory[i].pid = <<result.value.model>>
               /\ InvEntryOf(reply.show_inventory, i) # 0
               /\ reply.show_inventory[InvEntryOf(reply.show_inventory, i)].chassis

\* C24: whenever load_replace_candidate returns (True, 'Candidate loaded to
\* memory'), a candidate is loaded afterwards; a call with neither a file nor
\* a text, or with an empty text, on an Empty session does not return it.
C24_SuccessMeansLoaded ==
    (/\ op = "load_replace_candidate"
     /\ result = Returned(<<TRUE, "Candidate loaded to memory">>))
        => candidate_config.loaded
====
